---- MODULE Spec2Model ----
(***************************************************************************)
(* A model of borg-helper.py: the BorgHelper engine (layered config        *)
(* loading, two-tier alias resolution, dispatch of the external tool) and  *)
(* the two composite commands list-archives and list-removed-items.        *)
(*                                                                         *)
(* Representation of Python values:                                        *)
(*   - a dict is a function, its keys the DOMAIN;                          *)
(*   - a str that the code only compares or concatenates is a string;      *)
(*   - a str that the code splits (an alias expansion, a captured stdout,  *)
(*     an answer typed at the prompt) is a sequence of chunks, each chunk  *)
(*     a string: the separator (" " or "\n") is always a chunk of its own  *)
(*     and no other chunk contains it;                                     *)
(*   - an optional value is a sequence of length 0 or 1;                   *)
(*   - None as an exit code is the number None.                            *)
(***************************************************************************)
EXTENDS Integers, Sequences, FiniteSets, TLC

VARIABLES
    \* BorgHelper's fields
    borg_binary,          \* self.borg_binary
    command_aliases,      \* self.command_aliases
    repositories,         \* self.repositories
    ask_before_execute,   \* self.ask_before_execute
    \* the config files read so far by load_configs, in load order
    loaded,
    \* the command line of the run (after parse_arguments)
    options,              \* the set of option characters
    argv,                 \* the arguments from the first non-option on
    \* the position of the run and the locals of the running command
    pc,
    command,              \* which branch of main / execute_command the run took
    archives,             \* list-archives: the lines of the enumeration
    pos,                  \* index of the next archive / diff record
    highest_exit_code,    \* list-archives
    parsed,               \* list-removed-items: argparse's namespace
    lines,                \* list-removed-items: the diff's records
    exit_code,            \* list-removed-items
    printed,              \* lines written to stdout by print_color
    \* the environment as the run has touched it
    events,               \* prompts shown and subprocesses started, in order
    answer,               \* what input() read at the last prompt
    last_process,         \* what the last execute_borg call returned
    \* how the run ended
    returned,             \* execute_command's return value
    raised,               \* the exception that ended the run, if any
    exit_status,          \* the process's exit status
    \* resolve_alias applied on its own
    resolved

vars == << borg_binary, command_aliases, repositories, ask_before_execute,
           loaded, options, argv, pc, command, archives, pos,
           highest_exit_code,
           parsed, lines, exit_code, printed, events, answer, last_process,
           returned, raised, exit_status, resolved >>

engine == << borg_binary, command_aliases, repositories >>

run_vars == << ask_before_execute, options, argv, pc, command, archives, pos,
               highest_exit_code, parsed, lines, exit_code, printed, events,
               answer, last_process, returned, raised, exit_status >>

(***************************************************************************)
(* Python helpers                                                          *)
(***************************************************************************)

\* Python's None where an int is expected.
None == -1

\* dict.update(other): other's keys overwrite, the rest is kept.
dict_update(d, other) ==
    [k \in (DOMAIN d) \cup (DOMAIN other) |->
        IF k \in DOMAIN other THEN other[k] ELSE d[k]]

\* d[key] = value
dict_set(d, key, value) ==
    [k \in (DOMAIN d) \cup {key} |-> IF k = key THEN value ELSE d[k]]

\* The empty dict.
EmptyDict == [k \in {} |-> k]

\* A mutant of max: the later value wins.
max_last(a, b) == b

\* max(a, b)
max(a, b) == IF a >= b THEN a ELSE b

(***************************************************************************)
(* Strings                                                                 *)
(***************************************************************************)

\* sep.join(tokens)
RECURSIVE join(_, _)
join(tokens, sep) ==
    IF tokens = << >> THEN ""
    ELSE IF Len(tokens) = 1 THEN tokens[1]
    ELSE tokens[1] \o sep \o join(Tail(tokens), sep)

\* str.split(" ") on a string given as chunks: cur collects the token being
\* read, out the tokens already closed by a space.
RECURSIVE split_from(_, _, _)
split_from(chunks, cur, out) ==
    IF chunks = << >> THEN Append(out, cur)
    ELSE IF Head(chunks) = " "
         THEN split_from(Tail(chunks), "", Append(out, cur))
         ELSE split_from(Tail(chunks), cur \o Head(chunks), out)

\* value.split(" ")
split(chunks) == split_from(chunks, "", << >>)

\* str.splitlines() on a string given as chunks: a line ends at each "\n" and
\* the text after the last "\n" is a line only when it is not empty.
RECURSIVE splitlines_from(_, _, _, _)
splitlines_from(chunks, cur, open, out) ==
    IF chunks = << >> THEN (IF open THEN Append(out, cur) ELSE out)
    ELSE IF Head(chunks) = "\n"
         THEN splitlines_from(Tail(chunks), "", FALSE, Append(out, cur))
         ELSE splitlines_from(Tail(chunks), cur \o Head(chunks), TRUE, out)

\* stdout.decode("utf-8").splitlines()
splitlines(chunks) == splitlines_from(chunks, "", FALSE, << >>)

\* str.lower() on a string given as its characters.
lower(chars) ==
    [i \in 1..Len(chars) |->
        IF chars[i] = "N" THEN "n"
        ELSE IF chars[i] = "Y" THEN "y"
        ELSE IF chars[i] = "O" THEN "o"
        ELSE chars[i]]

\* str.startswith(c) for a single character c.
startswith(chars, c) == Len(chars) > 0 /\ chars[1] = c

(***************************************************************************)
(* Alias resolution                                                        *)
(***************************************************************************)

\* A mutant of resolve_alias: the expansion is resolved again.
RECURSIVE resolve_alias_again(_, _)
resolve_alias_again(arguments, aliases) ==
    IF Len(arguments) = 0 THEN << >>
    ELSE IF arguments[1] \notin DOMAIN aliases THEN arguments
    ELSE LET once == split(aliases[arguments[1]]) \o Tail(arguments)
         IN  IF once[1] = arguments[1] THEN once
             ELSE resolve_alias_again(once, aliases)

\* resolve_alias
resolve_alias(arguments, aliases) ==
    IF Len(arguments) = 0 THEN << >>
    ELSE LET command_name == arguments[1]
         IN  IF command_name \notin DOMAIN aliases THEN arguments
             ELSE split(aliases[command_name]) \o Tail(arguments)

(***************************************************************************)
(* Config loading                                                          *)
(***************************************************************************)

\* add_alias: self.command_aliases[name] = value
add_alias(aliases, name, value) ==
    dict_set(aliases, name, value)

\* A mutant of add_repository: the table is rebuilt around the new entry.
add_repository_only(repos, name, config) ==
    [n \in {name} |->
        IF name \in DOMAIN repos THEN dict_update(repos[name], config)
        ELSE config]

\* A mutant of add_repository: the new config replaces the whole entry.
add_repository_replace(repos, name, config) ==
    dict_set(repos, name, config)

\* add_repository: create the entry if absent, then update it field by field.
add_repository(repos, name, config) ==
    LET present == IF name \notin DOMAIN repos
                   THEN dict_set(repos, name, EmptyDict)
                   ELSE repos
    IN  dict_set(present, name, dict_update(present[name], config))

\* for alias_name, alias_value in aliases.items(): self.add_alias(...)
RECURSIVE add_aliases(_, _, _)
add_aliases(aliases, todo, config_aliases) ==
    IF todo = {} THEN aliases
    ELSE LET name == CHOOSE n \in todo : TRUE
         IN  add_aliases(add_alias(aliases, name, config_aliases[name]),
                         todo \ {name}, config_aliases)

\* for repository_name, repository_config in repositories.items(): ...
RECURSIVE add_repositories(_, _, _)
add_repositories(repos, todo, config_repos) ==
    IF todo = {} THEN repos
    ELSE LET name == CHOOSE n \in todo : TRUE
         IN  add_repositories(add_repository(repos, name, config_repos[name]),
                              todo \ {name}, config_repos)

\* The engine state as a record, for the operators that fold over files.
EngineState(bin, aliases, repos) ==
    [borg_binary |-> bin, command_aliases |-> aliases, repositories |-> repos]

\* BorgHelper.__init__
FreshEngine == EngineState("borg", EmptyDict, EmptyDict)

\* load_config on an engine state.  file is << >> for a path that does not
\* exist (FileNotFoundError is caught and nothing changes), <<config>> for a
\* JSON object; config.borg_binary is << >> when the key is absent and
\* config.aliases / config.repositories are empty when theirs is.
load_config_state(e, file) ==
    IF file = << >> THEN e
    ELSE LET config == file[1]
         IN  EngineState(
                IF config.borg_binary # << >> THEN config.borg_binary[1]
                ELSE e.borg_binary,
                add_aliases(e.command_aliases, DOMAIN config.aliases,
                            config.aliases),
                add_repositories(e.repositories, DOMAIN config.repositories,
                                 config.repositories))

\* load_configs: the files of config_paths, in order.
RECURSIVE load_configs_state(_, _)
load_configs_state(e, files) ==
    IF files = << >> THEN e
    ELSE load_configs_state(load_config_state(e, Head(files)), Tail(files))

(***************************************************************************)
(* The config files the model reads                                        *)
(***************************************************************************)

\* How many config paths load_configs visits.
MaxSources == 3

\* Two alias expansions: "create --stats" and "list".
CreateStats == << "create", " ", "--stats" >>
ListOnly == << "list" >>

\* The top-level keys "borg_binary" and "aliases" of a config file.
GlobalParts ==
    { [borg_binary |-> << >>, aliases |-> EmptyDict],
      [borg_binary |-> << "borg1" >>, aliases |-> EmptyDict],
      [borg_binary |-> << >>, aliases |-> [n \in {"backup"} |-> CreateStats]],
      [borg_binary |-> << "/opt/borg" >>,
       aliases |-> [n \in {"backup", "ls"} |->
                        IF n = "backup" THEN ListOnly ELSE CreateStats]] }

RepoNames == {"main", "offsite"}
FieldNames == {"repository", "passphrase", "ssh_key", "aliases"}
AliasNames == {"backup", "ls"}

\* Values of one entry of the "repositories" object.
LocalEntry ==
    [f \in {"repository", "passphrase"} |->
        IF f = "repository" THEN "/srv/a" ELSE "pw1"]
RemoteEntry ==
    [f \in {"repository", "ssh_key"} |->
        IF f = "repository" THEN "ssh://b" ELSE "id_b"]
SecretEntry ==
    [f \in {"passphrase", "aliases"} |->
        IF f = "passphrase" THEN "pw2" ELSE [n \in {"backup"} |-> ListOnly]]

\* Values of the "repositories" object: absent, one entry, or two.
RepoParts ==
    {EmptyDict}
    \cup { [n \in {"main"} |-> entry] :
              entry \in {EmptyDict, LocalEntry, SecretEntry} }
    \cup { [n \in {"offsite"} |-> entry] : entry \in {RemoteEntry, SecretEntry} }
    \cup { [n \in RepoNames |->
              IF n = "main" THEN [f \in {"repository"} |-> "/srv/m"]
              ELSE [f \in {"aliases"} |-> [a \in {"ls"} |-> ListOnly]]] }

ConfigSet ==
    { [borg_binary |-> g.borg_binary, aliases |-> g.aliases,
       repositories |-> r] : g \in GlobalParts, r \in RepoParts }

\* What a config path holds: nothing (the file does not exist) or a config.
FileSet == { << >> } \cup { << c >> : c \in ConfigSet }

(***************************************************************************)
(* Actions of config loading                                               *)
(***************************************************************************)

\* One iteration of load_configs: load_config on the next path.
load_config(file) ==
    /\ pc = "load_configs"
    /\ Len(loaded) < MaxSources
    /\ LET e == load_config_state(
                    EngineState(borg_binary, command_aliases, repositories),
                    file)
       IN  /\ borg_binary' = e.borg_binary
           /\ command_aliases' = e.command_aliases
           /\ repositories' = e.repositories
    /\ loaded' = Append(loaded, file)
    /\ UNCHANGED << run_vars, resolved >>

\* The locals and the environment's record before the run has started.
InitLocals ==
    /\ ask_before_execute = FALSE
    /\ command = "none"
    /\ archives = << >>
    /\ pos = 0
    /\ highest_exit_code = 0
    /\ parsed = << >>
    /\ lines = << >>
    /\ exit_code = 0
    /\ printed = << >>
    /\ events = << >>
    /\ answer = << >>
    /\ last_process = None
    /\ returned = None
    /\ raised = "none"
    /\ exit_status = None

InitLoad ==
    /\ borg_binary = FreshEngine.borg_binary
    /\ command_aliases = FreshEngine.command_aliases
    /\ repositories = FreshEngine.repositories
    /\ loaded = << >>
    /\ pc = "load_configs"
    /\ resolved = << >>
    /\ options = {}
    /\ argv = << >>
    /\ InitLocals

NextLoad == \E file \in FileSet : load_config(file)

SpecLoad == InitLoad /\ [][NextLoad]_vars

(***************************************************************************)
(* Claims about config loading                                             *)
(***************************************************************************)

\* The configs (not the missing files) among the files loaded so far.
IsConfig(i) == loaded[i] # << >>
Config(i) == loaded[i][1]

SpecifiesRepo(i, n) == IsConfig(i) /\ n \in DOMAIN Config(i).repositories
SpecifiesField(i, n, f) ==
    SpecifiesRepo(i, n) /\ f \in DOMAIN Config(i).repositories[n]
SpecifiesAlias(i, a) == IsConfig(i) /\ a \in DOMAIN Config(i).aliases
SpecifiesBinary(i) == IsConfig(i) /\ Config(i).borg_binary # << >>

\* The last index of S (a non-empty set of indices).
Last(S) == CHOOSE i \in S : \A j \in S : j <= i

FieldSources(n, f) == { i \in 1..Len(loaded) : SpecifiesField(i, n, f) }
AliasSources(a) == { i \in 1..Len(loaded) : SpecifiesAlias(i, a) }
BinarySources == { i \in 1..Len(loaded) : SpecifiesBinary(i) }

\* C1: after any sequence of loads, a repository exists iff some source named
\* it, each of its fields is present iff some source specified it and holds
\* the value of the last source that did; the same for every global alias and
\* for borg_binary (which keeps its default "borg" when no source sets it).
C1_LaterWins ==
    /\ \A n \in RepoNames :
          /\ n \in DOMAIN repositories
                <=> \E i \in 1..Len(loaded) : SpecifiesRepo(i, n)
          /\ n \in DOMAIN repositories =>
                \A f \in FieldNames :
                   /\ f \in DOMAIN repositories[n] <=> FieldSources(n, f) # {}
                   /\ FieldSources(n, f) # {} =>
                         repositories[n][f] =
                            Config(Last(FieldSources(n, f))).repositories[n][f]
    /\ DOMAIN repositories \subseteq RepoNames
    /\ \A n \in DOMAIN repositories : DOMAIN repositories[n] \subseteq FieldNames
    /\ \A a \in AliasNames :
          /\ a \in DOMAIN command_aliases <=> AliasSources(a) # {}
          /\ AliasSources(a) # {} =>
                command_aliases[a] = Config(Last(AliasSources(a))).aliases[a]
    /\ DOMAIN command_aliases \subseteq AliasNames
    /\ borg_binary = IF BinarySources = {} THEN "borg"
                     ELSE Config(Last(BinarySources)).borg_binary[1]

\* C1's case: a later source overwrote one field of a repository and left
\* another field, set by an earlier source, alone.
C1_Witness ==
    /\ Len(loaded) >= 2
    /\ \E n \in RepoNames, f, g \in FieldNames :
          /\ Cardinality(FieldSources(n, f)) >= 2
          /\ Config(Last(FieldSources(n, f))).repositories[n][f]
                # Config(1).repositories[n][f]
          /\ FieldSources(n, g) = {1}
          /\ SpecifiesRepo(Len(loaded), n)

\* The files loaded so far with the files at positions i and j exchanged.
Swapped(i, j) ==
    [k \in 1..Len(loaded) |->
        IF k = i THEN loaded[j] ELSE IF k = j THEN loaded[i] ELSE loaded[k]]

ReposOf(i) == IF IsConfig(i) THEN DOMAIN Config(i).repositories ELSE {}
AliasesOf(i) == IF IsConfig(i) THEN DOMAIN Config(i).aliases ELSE {}

CurrentEngine == EngineState(borg_binary, command_aliases, repositories)

\* C2 as stated: exchanging any two sources that touch disjoint sets of
\* repository names, the others staying where they are, gives the same final
\* borg_binary, global alias table and repository set.
C2_DisjointReposCommute ==
    \A i, j \in 1..Len(loaded) :
        (i < j /\ ReposOf(i) \cap ReposOf(j) = {}) =>
            load_configs_state(FreshEngine, Swapped(i, j)) = CurrentEngine

\* C2 amended: exchanging two adjacent sources that touch disjoint sets of
\* repository names gives the same repository set; the whole engine state is
\* the same when in addition the two do not both set borg_binary and set no
\* global alias of the same name.
C2_AdjacentDisjointCommute ==
    \A i \in 1..Len(loaded) :
        (i < Len(loaded) /\ ReposOf(i) \cap ReposOf(i + 1) = {}) =>
            LET other == load_configs_state(FreshEngine, Swapped(i, i + 1))
            IN  /\ other.repositories = repositories
                /\ (/\ ~(SpecifiesBinary(i) /\ SpecifiesBinary(i + 1))
                    /\ AliasesOf(i) \cap AliasesOf(i + 1) = {})
                   => other = CurrentEngine

\* C2's case: two adjacent sources that each define a repository the other
\* does not name, one setting borg_binary and the other a global alias, were
\* loaded after another source.
C2_Witness ==
    /\ Len(loaded) = 3
    /\ IsConfig(1)
    /\ ReposOf(2) # {} /\ ReposOf(3) # {}
    /\ ReposOf(2) \cap ReposOf(3) = {}
    /\ SpecifiesBinary(2) /\ ~SpecifiesBinary(3)
    /\ AliasesOf(3) # {} /\ AliasesOf(2) = {}
    /\ \E n \in ReposOf(2) : DOMAIN Config(2).repositories[n] # {}
    /\ \E n \in ReposOf(3) : DOMAIN Config(3).repositories[n] # {}

(***************************************************************************)
(* resolve_alias on its own                                                *)
(***************************************************************************)

\* The longest argument list resolve_alias is given.
MaxArgs == 2

\* Alias expansions: "create --stats", "backup x" (its first token is an alias
\* name), "a  b" (two spaces), "" (empty), " list" (a leading space).
ExpansionSet ==
    { CreateStats, << "backup", " ", "x" >>, << "a", " ", " ", "b" >>,
      << >>, << " ", "list" >> }

TokenSet == {"backup", "create", "x"}
TableNames == {"backup", "create"}

ArgumentLists ==
    UNION { [1..n -> TokenSet] : n \in 0..MaxArgs }

AliasTables ==
    UNION { [names -> ExpansionSet] : names \in SUBSET TableNames }

InitResolve ==
    /\ borg_binary = FreshEngine.borg_binary
    /\ repositories = FreshEngine.repositories
    /\ command_aliases \in AliasTables
    /\ loaded = << >>
    /\ options = {}
    /\ argv \in ArgumentLists
    /\ InitLocals
    /\ pc = "resolve_alias"
    /\ resolved = << >>

\* resolve_alias(argv, command_aliases), called once.
call_resolve_alias ==
    /\ pc = "resolve_alias"
    /\ resolved' = resolve_alias(argv, command_aliases)
    /\ pc' = "resolved"
    /\ UNCHANGED << engine, ask_before_execute, loaded, options, argv, command,
                    archives, pos, highest_exit_code, parsed, lines, exit_code,
                    printed, events, answer, last_process, returned, raised,
                    exit_status >>

NextResolve == call_resolve_alias

SpecResolve == InitResolve /\ [][NextResolve]_vars

\* The number of " " chunks of an expansion.
Spaces(chunks) == Len(SelectSeq(chunks, LAMBDA c : c = " "))

\* C3: resolve_alias returns [] for no arguments, the arguments themselves
\* when the first is no key of the table, and otherwise the expansion split on
\* single spaces (as many tokens as the expansion has spaces, plus one, which
\* joined by single spaces give the expansion back) followed by
\* arguments[1:]; nothing is resolved a second time.
C3_ResolveAlias ==
    pc = "resolved" =>
        IF argv = << >> THEN resolved = << >>
        ELSE IF argv[1] \notin DOMAIN command_aliases THEN resolved = argv
        ELSE LET expansion == command_aliases[argv[1]]
                 n == Spaces(expansion) + 1
             IN  /\ Len(resolved) = n + Len(argv) - 1
                 /\ join(SubSeq(resolved, 1, n), " ") = join(expansion, "")
                 /\ SubSeq(resolved, n + 1, Len(resolved)) = Tail(argv)

\* C3's case: the first argument is an alias whose expansion starts with a
\* key of the same table, and more arguments follow it.
C3_Witness ==
    /\ pc = "resolved"
    /\ Len(argv) = 2
    /\ argv[1] \in DOMAIN command_aliases
    /\ resolved[1] \in DOMAIN command_aliases
    /\ Len(resolved) = 3
    /\ resolved[3] = argv[2]

(***************************************************************************)
(* The dispatcher: execute_borg                                            *)
(***************************************************************************)

\* sys.argv after the options: the repository name, then borg's arguments.
repository_name == argv[1]
arguments == Tail(argv)

\* A mutant of get_repository: an unknown name gets an empty config.
get_repository_default(name) ==
    IF name \in DOMAIN repositories THEN << repositories[name] >>
    ELSE << EmptyDict >>

\* get_repository: self.repositories.get(name), << >> for None.
get_repository(name) ==
    IF name \in DOMAIN repositories THEN << repositories[name] >> ELSE << >>

\* The variables execute_borg lays over os.environ.
borg_env(repository_config) ==
    LET keys == { k \in {"BORG_REPO", "BORG_PASSPHRASE", "BORG_RSH"} :
                     \/ k = "BORG_REPO" /\ "repository" \in DOMAIN repository_config
                     \/ k = "BORG_PASSPHRASE"
                           /\ "passphrase" \in DOMAIN repository_config
                     \/ k = "BORG_RSH" /\ "ssh_key" \in DOMAIN repository_config }
    IN  [k \in keys |->
            IF k = "BORG_REPO" THEN repository_config["repository"]
            ELSE IF k = "BORG_PASSPHRASE" THEN repository_config["passphrase"]
            ELSE "ssh -i '" \o repository_config["ssh_key"] \o "'"]

\* repository_config.get("aliases", {})
repository_aliases(repository_config) ==
    IF "aliases" \in DOMAIN repository_config THEN repository_config["aliases"]
    ELSE EmptyDict

\* A mutant of resolved_arguments: the global table is applied first.
resolved_arguments_global_first(repository_config, args) ==
    IF Len(args) > 0
    THEN resolve_alias(resolve_alias(args, command_aliases),
                       repository_aliases(repository_config))
    ELSE args

\* The two resolve_alias calls of execute_borg.
resolved_arguments(repository_config, args) ==
    IF Len(args) > 0
    THEN resolve_alias(resolve_alias(args, repository_aliases(repository_config)),
                       command_aliases)
    ELSE args

\* " ".join([self.borg_binary] + arguments)
command_line(repository_config, args) ==
    join(<< borg_binary >> \o resolved_arguments(repository_config, args), " ")

\* A mutant of declined: the answer is not lower-cased.
declined_case_sensitive(ans) ==
    ask_before_execute /\ startswith(ans, "n")

\* Whether execute_borg returns None at the prompt.
declined(ans) ==
    ask_before_execute /\ startswith(lower(ans), "n")

\* A mutant of check_failed: check=True is ignored.
check_ignored(check, rc) == FALSE

\* subprocess.run(..., check=True) raises CalledProcessError on a non-zero
\* return code.
check_failed(check, rc) == check /\ rc # 0

\* One entry of events: the echo of the command line on stderr, the prompt,
\* or the start of the subprocess (with the return code and the stdout it
\* will produce).
Event(type, args, cmd, env, rc, out) ==
    [type |-> type, args |-> args, cmd |-> cmd, env |-> env, rc |-> rc,
     out |-> out]

\* execute_borg(name, args, **kwargs) where the user types ans if asked and
\* the subprocess, if started, ends with return code rc and writes out.
\* The result: the exception raised ("none" for a normal return), the events
\* added, the value returned (the return code; None for None), the captured
\* stdout and the answer read.
execute_borg(name, args, capture, check, ans, rc, out) ==
    LET repository_config == get_repository(name)
    IN  IF repository_config = << >>
        THEN [raised |-> "ConfigError", events |-> << >>, process |-> None,
              stdout |-> << >>, answer |-> answer]
        ELSE LET cmd == command_line(repository_config[1], args)
                 env == borg_env(repository_config[1])
                 echo == << Event("echo", args, cmd, env, None, << >>) >>
                 prompt == IF ask_before_execute
                           THEN << Event("prompt", args, cmd, env, None, << >>) >>
                           ELSE << >>
                 read == IF ask_before_execute THEN ans ELSE answer
             IN  IF declined(ans)
                 THEN [raised |-> "none", events |-> echo \o prompt,
                       process |-> None, stdout |-> << >>, answer |-> read]
                 ELSE [raised |-> IF check_failed(check, rc)
                                  THEN "CalledProcessError" ELSE "none",
                       events |-> echo \o prompt
                                    \o << Event("run", args, cmd, env, rc, out) >>,
                       process |-> rc,
                       stdout |-> IF capture THEN out ELSE << >>,
                       answer |-> read]

\* The exit status of the process for an exception that leaves
\* execute_command: main catches ConfigError and returns 1; any other
\* exception ends the interpreter with a traceback and status 1.
exception_status(exception) == 1

\* The run goes on at next after the execute_borg call b.
Continue(b, next) ==
    /\ events' = events \o b.events
    /\ answer' = b.answer
    /\ last_process' = b.process
    /\ pc' = next
    /\ UNCHANGED << returned, raised, exit_status >>

\* The run ends after the execute_borg call b: execute_command returns value.
Return(b, value) ==
    /\ events' = events \o b.events
    /\ answer' = b.answer
    /\ last_process' = b.process
    /\ pc' = "exit"
    /\ returned' = value
    /\ raised' = "none"
    /\ exit_status' = value

\* The run ends after the execute_borg call b, which raised.
Raise(b) ==
    /\ events' = events \o b.events
    /\ answer' = b.answer
    /\ last_process' = b.process
    /\ pc' = "exit"
    /\ returned' = None
    /\ raised' = b.raised
    /\ exit_status' = exception_status(b.raised)

(***************************************************************************)
(* The inputs of a run                                                     *)
(***************************************************************************)

\* The largest return code of the external tool.
MaxExit == 2
\* The longest captured stdout of "list --short", in chunks.
MaxOut == 4
\* The most archives "list --last 2 --json" reports.
MaxArchives == 2
\* The most records "diff --json-lines" writes.
MaxRecords == 2

ExitCodes == 0..MaxExit

\* What the user may type at the prompt, as characters: nothing, "n", "No",
\* "yn".
AnswerSet ==
    { << >>, << "n" >>, << "N", "o" >>, << "y", "n" >> }

\* Captured stdouts of "list --short": archive names and line ends.
StdoutSet == UNION { [1..n -> {"a", "\n"}] : n \in 0..MaxOut }

\* The "archives" array of "list --last 2 --json", as the archive names.
ArchiveLists ==
    { SubSeq(<< "mon", "tue", "wed", "thu", "fri" >>, 1, n) : n \in 0..MaxArchives }

\* The "changes" arrays of one diff record, as the change types.
ChangeLists ==
    { << >>, << "removed" >>, << "removed directory" >>, << "modified" >>,
      << "modified", "removed" >>, << "removed", "added" >> }

RecordSet == { [path |-> "etc/f", changes |-> c] : c \in ChangeLists }

\* The parsed lines of "diff --json-lines".
RecordLists == UNION { [1..n -> RecordSet] : n \in 0..MaxRecords }

\* The alias table of repository "main" in the runs.
MainAliases ==
    [n \in {"backup", "b"} |->
        IF n = "backup" THEN << "create", " ", "--list" >>
        ELSE << "backup", " ", "now" >>]

MainEntry ==
    [f \in {"repository", "passphrase", "ssh_key"} |->
        IF f = "repository" THEN "/srv/a"
        ELSE IF f = "passphrase" THEN "pw1" ELSE "id_b"]

\* The config files of the runs: one without repositories; one with global
\* aliases only; one with another binary, global and repository aliases and
\* a repository entry without "repository".
RunConfigs ==
    { [borg_binary |-> << "borg1" >>, aliases |-> EmptyDict,
       repositories |-> EmptyDict],
      [borg_binary |-> << >>,
       aliases |-> [n \in {"backup", "create"} |->
                       IF n = "backup" THEN CreateStats
                       ELSE << "create", " ", "-v" >>],
       repositories |-> [n \in {"main"} |-> MainEntry]],
      [borg_binary |-> << "/opt/borg" >>,
       aliases |-> [n \in {"backup", "list"} |->
                       IF n = "backup" THEN << "backup", " ", "--again" >>
                       ELSE << "list", " ", "--lock-wait=5" >>],
       repositories |-> [n \in {"main", "offsite"} |->
                           IF n = "main"
                           THEN [f \in {"passphrase", "aliases"} |->
                                    IF f = "passphrase" THEN "pw2"
                                    ELSE MainAliases]
                           ELSE [f \in {"repository"} |-> "ssh://b"]]] }

\* What the config paths hold in a run: no file at all, or one config.
RunFileLists == { << << >> >> } \cup { << << >>, << c >> >> : c \in RunConfigs }

\* The arguments after the repository name.
RunArguments ==
    { << >>, << "backup" >>, << "backup", "--dry-run" >>, << "b" >>,
      << "info" >>,
      << "list-archives" >>, << "list-archives", "--short" >>,
      << "list-removed-items" >>, << "list-removed-items", "--fail" >>,
      << "list-removed-items", "--fail", "--color", "etc" >>,
      << "list-removed-items", "--bogus" >>,
      << "list-removed-items", "etc", "var" >>,
      << "list-removed-items", "--fail", "-h" >> }

RunArgvs ==
    { << >> } \cup
    { << name >> \o args : name \in {"main", "nope", "list"}, args \in RunArguments }

OptionSets == SUBSET {"h", "i"}

\* All repository names of the model, in the order sorted() gives them.
NameOrder == << "main", "offsite" >>

(***************************************************************************)
(* main                                                                    *)
(***************************************************************************)

\* The variables a step of main leaves alone.
main_unchanged ==
    UNCHANGED << options, argv, archives, pos, highest_exit_code, parsed,
                 lines, exit_code, events, answer, last_process, returned,
                 resolved >>

\* borg_helper = BorgHelper(config_paths); borg_helper.load_configs()
main_load(files) ==
    LET e == load_configs_state(FreshEngine, files)
    IN  /\ borg_binary' = e.borg_binary
        /\ command_aliases' = e.command_aliases
        /\ repositories' = e.repositories
        /\ loaded' = files

\* main: no arguments, or -h: the usage text, exit status 1.
main_usage ==
    /\ pc = "main"
    /\ argv = << >> \/ "h" \in options
    /\ pc' = "exit"
    /\ command' = "usage"
    /\ exit_status' = 1
    /\ UNCHANGED << engine, loaded, ask_before_execute, printed, raised >>
    /\ main_unchanged

\* main: the configs hold no repository: exit status 1.
main_no_repositories(files) ==
    /\ pc = "main"
    /\ ~(argv = << >> \/ "h" \in options)
    /\ main_load(files)
    /\ DOMAIN repositories' = {}
    /\ pc' = "exit"
    /\ command' = "no-repositories"
    /\ exit_status' = 1
    /\ UNCHANGED << ask_before_execute, printed, raised >>
    /\ main_unchanged

\* sorted(repositories.keys())
sorted_names(repos) == SelectSeq(NameOrder, LAMBDA n : n \in DOMAIN repos)

\* The lines "list" prints before it ends: a repository without the key
\* "repository" raises KeyError there.
RECURSIVE list_lines(_, _)
list_lines(names, repos) ==
    IF names = << >> \/ "repository" \notin DOMAIN repos[Head(names)] THEN << >>
    ELSE << "  " \o Head(names) \o " (" \o repos[Head(names)]["repository"] \o ")" >>
         \o list_lines(Tail(names), repos)

\* main: "list" as the first argument prints the repositories.
main_list(files) ==
    /\ pc = "main"
    /\ ~(argv = << >> \/ "h" \in options)
    /\ main_load(files)
    /\ DOMAIN repositories' # {}
    /\ argv[1] = "list"
    /\ LET names == sorted_names(repositories')
           out == list_lines(names, repositories')
       IN  /\ printed' = << "Available repositories:" >> \o out
           /\ raised' = IF Len(out) < Len(names) THEN "KeyError" ELSE "none"
           /\ exit_status' = IF Len(out) < Len(names)
                             THEN exception_status("KeyError") ELSE 0
    /\ pc' = "exit"
    /\ command' = "list"
    /\ UNCHANGED ask_before_execute
    /\ main_unchanged

\* main: anything else goes to execute_command, with -i setting
\* ask_before_execute first.
main_execute(files) ==
    /\ pc = "main"
    /\ ~(argv = << >> \/ "h" \in options)
    /\ main_load(files)
    /\ DOMAIN repositories' # {}
    /\ argv[1] # "list"
    /\ ask_before_execute' = ("i" \in options)
    /\ pc' = "execute_command"
    /\ UNCHANGED << command, printed, raised, exit_status >>
    /\ main_unchanged

(***************************************************************************)
(* execute_command and the composite commands                              *)
(***************************************************************************)

\* The first argument names a composite command.
is_custom(name) == Len(arguments) > 0 /\ arguments[1] = name

\* The variables the locals of the composite commands live in.
locals == << archives, pos, highest_exit_code, parsed, lines, exit_code, printed >>

\* The variables no step of execute_command changes.
fixed == << engine, loaded, ask_before_execute, options, argv, resolved >>

\* execute_command, no composite command: one execute_borg call; its return
\* code is the result, 1 when it returned None.
pass_through(ans, rc) ==
    /\ pc = "execute_command"
    /\ ~is_custom("list-archives") /\ ~is_custom("list-removed-items")
    /\ command' = "pass-through"
    /\ LET b == execute_borg(repository_name, arguments, FALSE, FALSE, ans, rc,
                             << >>)
       IN  IF b.raised # "none" THEN Raise(b)
           ELSE IF b.process = None THEN Return(b, 1)
           ELSE Return(b, b.process)
    /\ UNCHANGED << fixed, locals >>

\* list-archives: the enumeration "list --short", captured and checked; with
\* no line to loop over the command returns 0 at once.
list_archives_enumerate(ans, rc, out) ==
    /\ pc = "execute_command"
    /\ is_custom("list-archives")
    /\ command' = "list-archives"
    /\ LET b == execute_borg(repository_name, << "list", "--short" >>, TRUE,
                             TRUE, ans, rc, out)
       IN  IF b.raised # "none"
           THEN Raise(b) /\ UNCHANGED << archives, pos, highest_exit_code >>
           ELSE IF b.process = None
           THEN Return(b, 1) /\ UNCHANGED << archives, pos, highest_exit_code >>
           ELSE /\ archives' = splitlines(b.stdout)
                /\ pos' = 1
                /\ highest_exit_code' = 0
                /\ IF archives' = << >> THEN Return(b, highest_exit_code')
                   ELSE Continue(b, "list_archives")
    /\ UNCHANGED << fixed, parsed, lines, exit_code, printed >>

\* list-archives: one turn of the loop, "list ::<archive>" plus the extra
\* arguments, neither captured nor checked; after the last archive the
\* command returns highest_exit_code.
list_archives_archive(ans, rc) ==
    /\ pc = "list_archives"
    /\ pos <= Len(archives)
    /\ LET b == execute_borg(repository_name,
                             << "list", "::" \o archives[pos] >> \o Tail(arguments),
                             FALSE, FALSE, ans, rc, << >>)
       IN  IF b.raised # "none"
           THEN Raise(b) /\ UNCHANGED << pos, highest_exit_code >>
           ELSE /\ pos' = pos + 1
                /\ highest_exit_code' =
                      IF b.process = None THEN highest_exit_code
                      ELSE max(highest_exit_code, b.process)
                /\ IF pos = Len(archives) THEN Return(b, highest_exit_code')
                   ELSE Continue(b, "list_archives")
    /\ UNCHANGED << fixed, command, archives, parsed, lines, exit_code, printed >>

\* The tokens of the model that start with "-".
DashTokens == {"-h", "--help", "--fail", "--color", "--bogus", "--dry-run",
               "--short"}

\* argparse's parse_args for list-removed-items: -h prints the help and exits
\* with 0; an unknown option or a second positional is an error, exit 2;
\* otherwise the namespace (path is << >> for None).
parse_args(tokens) ==
    LET is(t) == \E i \in 1..Len(tokens) : tokens[i] = t
        positionals == SelectSeq(tokens, LAMBDA t : t \notin DashTokens)
        unknown == \E i \in 1..Len(tokens) :
                      tokens[i] \in DashTokens \ {"-h", "--help", "--fail", "--color"}
    IN  IF is("-h") \/ is("--help") THEN [exit |-> 0]
        ELSE IF unknown \/ Len(positionals) > 1 THEN [exit |-> 2]
        ELSE [exit |-> None, fail |-> is("--fail"), color |-> is("--color"),
              path |-> positionals]

\* list-removed-items: parse the options, then the enumeration
\* "list --last 2 --json", captured and checked; fewer than two archives end
\* the command with 0.
list_removed_items_enumerate(ans, rc, names) ==
    /\ pc = "execute_command"
    /\ is_custom("list-removed-items")
    /\ command' = "list-removed-items"
    /\ LET args == parse_args(Tail(arguments))
           b == execute_borg(repository_name,
                             << "list", "--last", "2", "--json" >>, TRUE, TRUE,
                             ans, rc, << >>)
       IN  IF args.exit # None
           THEN /\ pc' = "exit"
                /\ raised' = "SystemExit"
                /\ exit_status' = args.exit
                /\ UNCHANGED << archives, parsed, events, answer, last_process,
                                returned >>
           ELSE /\ parsed' = << args >>
                /\ IF b.raised # "none" THEN Raise(b) /\ UNCHANGED archives
                   ELSE IF b.process = None
                   THEN Return(b, 1) /\ UNCHANGED archives
                   ELSE IF Len(names) < 2
                   THEN Return(b, 0) /\ archives' = names
                   ELSE Continue(b, "list_removed_items_diff") /\ archives' = names
    /\ UNCHANGED << fixed, pos, highest_exit_code, lines, exit_code, printed >>

\* list-removed-items: the diff of the two archives, captured and checked;
\* with no record to read the command returns 0 at once.
list_removed_items_diff(ans, rc, records) ==
    /\ pc = "list_removed_items_diff"
    /\ LET diff_command == << "diff", "--json-lines", "::" \o archives[1],
                              archives[2] >> \o parsed[1].path
           b == execute_borg(repository_name, diff_command, TRUE, TRUE, ans, rc,
                             << >>)
       IN  IF b.raised # "none"
           THEN Raise(b) /\ UNCHANGED << lines, exit_code, pos >>
           ELSE IF b.process = None
           THEN Return(b, 1) /\ UNCHANGED << lines, exit_code, pos >>
           ELSE /\ lines' = records
                /\ exit_code' = 0
                /\ pos' = 1
                /\ IF lines' = << >> THEN Return(b, exit_code')
                   ELSE Continue(b, "list_removed_items_records")
    /\ UNCHANGED << fixed, command, archives, highest_exit_code, parsed, printed >>

\* print_color(string)
print_color(string) ==
    IF parsed[1].color THEN "\\033[31m" \o string \o "\\033[0m" ELSE string

\* The report lines of one record's changes.
RECURSIVE report_lines(_, _)
report_lines(path, changes) ==
    IF changes = << >> THEN << >>
    ELSE (IF Head(changes) = "removed"
          THEN << print_color("Removed file: " \o path) >>
          ELSE IF Head(changes) = "removed directory"
          THEN << print_color("Removed directory: " \o path) >>
          ELSE << >>)
         \o report_lines(path, Tail(changes))

\* A mutant of record_exit_code: the record's result replaces the code.
record_exit_code_reset(code, changes) ==
    IF parsed[1].fail
       /\ \E i \in 1..Len(changes) : changes[i] \in {"removed", "removed directory"}
    THEN 1 ELSE 0

\* exit_code after the changes of one record.
record_exit_code(code, changes) ==
    IF parsed[1].fail
       /\ \E i \in 1..Len(changes) : changes[i] \in {"removed", "removed directory"}
    THEN 1 ELSE code

\* list-removed-items: one record of the diff; after the last record the
\* command returns exit_code.
list_removed_items_record ==
    /\ pc = "list_removed_items_records"
    /\ pos <= Len(lines)
    /\ printed' = printed \o report_lines(lines[pos].path, lines[pos].changes)
    /\ exit_code' = record_exit_code(exit_code, lines[pos].changes)
    /\ pos' = pos + 1
    /\ IF pos = Len(lines)
       THEN /\ pc' = "exit"
            /\ returned' = exit_code'
            /\ exit_status' = exit_code'
       ELSE UNCHANGED << pc, returned, exit_status >>
    /\ UNCHANGED << fixed, command, archives, highest_exit_code, parsed, lines,
                    events, answer, last_process, raised >>

InitRun ==
    /\ borg_binary = FreshEngine.borg_binary
    /\ command_aliases = FreshEngine.command_aliases
    /\ repositories = FreshEngine.repositories
    /\ loaded = << >>
    /\ options \in OptionSets
    /\ argv \in RunArgvs
    /\ InitLocals
    /\ pc = "main"
    /\ resolved = << >>

Next ==
    \/ main_usage
    \/ \E files \in RunFileLists : main_no_repositories(files)
    \/ \E files \in RunFileLists : main_list(files)
    \/ \E files \in RunFileLists : main_execute(files)
    \/ \E ans \in AnswerSet, rc \in ExitCodes : pass_through(ans, rc)
    \/ \E ans \in AnswerSet, rc \in ExitCodes, out \in StdoutSet :
          list_archives_enumerate(ans, rc, out)
    \/ \E ans \in AnswerSet, rc \in ExitCodes : list_archives_archive(ans, rc)
    \/ \E ans \in AnswerSet, rc \in ExitCodes, names \in ArchiveLists :
          list_removed_items_enumerate(ans, rc, names)
    \/ \E ans \in AnswerSet, rc \in ExitCodes, records \in RecordLists :
          list_removed_items_diff(ans, rc, records)
    \/ list_removed_items_record

Spec == InitRun /\ [][Next]_vars

(***************************************************************************)
(* Claims about dispatch and the composite commands                        *)
(***************************************************************************)

\* The echoes (one per execute_borg call that found its repository), the
\* prompts and the subprocess starts, each in order.
Echoes == SelectSeq(events, LAMBDA e : e.type = "echo")
Prompts == SelectSeq(events, LAMBDA e : e.type = "prompt")
Runs == SelectSeq(events, LAMBDA e : e.type = "run")

Composite == {"list-archives", "list-removed-items"}
Dispatching == {"pass-through"} \cup Composite

\* The first execute_borg call of the run: its subprocess start is the event
\* after its echo and, when asked, its prompt.
EnumRunIndex == IF ask_before_execute THEN 3 ELSE 2
EnumRan == Len(events) >= EnumRunIndex /\ events[EnumRunIndex].type = "run"
EnumDeclined == ask_before_execute /\ Len(events) >= 2 /\ ~EnumRan
EnumFailed == EnumRan /\ events[EnumRunIndex].rc # 0
EnumSucceeded == EnumRan /\ events[EnumRunIndex].rc = 0

\* The alias expansion the claim C4 describes, written out table by table.
ExpectedArguments(args) ==
    LET own == IF "aliases" \in DOMAIN repositories[repository_name]
               THEN repositories[repository_name]["aliases"] ELSE EmptyDict
        first == IF args[1] \in DOMAIN own
                 THEN split(own[args[1]]) \o Tail(args) ELSE args
    IN  IF first[1] \in DOMAIN command_aliases
        THEN split(command_aliases[first[1]]) \o Tail(first)
        ELSE first

\* C4: the command line of every dispatch with arguments is the binary and
\* the arguments resolved once against the repository's own aliases and then
\* once against the global aliases, joined by single spaces.
C4_TwoTierResolution ==
    \A i \in 1..Len(events) :
        Len(events[i].args) > 0 =>
            events[i].cmd =
                join(<< borg_binary >> \o ExpectedArguments(events[i].args), " ")

\* C4's case: "b" is an alias of the repository for "backup now", "backup" an
\* alias of the repository and a global alias for "backup --again": the
\* global table expanded the repository's expansion once, and nothing again.
C4_Witness ==
    /\ pc = "exit"
    /\ command = "pass-through"
    /\ arguments = << "b" >>
    /\ repository_name \in DOMAIN repositories
    /\ "aliases" \in DOMAIN repositories[repository_name]
    /\ "backup" \in DOMAIN repositories[repository_name]["aliases"]
    /\ "backup" \in DOMAIN command_aliases
    /\ Len(Runs) = 1
    /\ Runs[1].cmd = "/opt/borg backup --again now"

\* The run went into execute_command with a repository name no config has.
UnknownRepository ==
    /\ pc = "exit"
    /\ command \in Dispatching
    /\ repository_name \notin DOMAIN repositories

\* C5 as stated: with an unconfigured repository name every argument list
\* ends in ConfigError, without subprocess or prompt, and exit status 1.
C5_UnknownRepositoryFails ==
    UnknownRepository =>
        /\ raised = "ConfigError"
        /\ Runs = << >> /\ Prompts = << >>
        /\ exit_status = 1

\* list-removed-items ended in argparse, before any execute_borg call.
OptionsRejected ==
    command = "list-removed-items" /\ parse_args(Tail(arguments)).exit # None

\* C5 amended: with an unconfigured repository name no subprocess is started
\* and no prompt shown; the run ends in ConfigError with exit status 1,
\* except for list-removed-items arguments that argparse rejects (exit status
\* 2) or that ask for help (exit status 0), which end the run before any
\* dispatch.
C5_UnknownRepositoryNoDispatch ==
    UnknownRepository =>
        /\ events = << >>
        /\ returned = None
        /\ IF OptionsRejected
           THEN /\ raised = "SystemExit"
                /\ exit_status =
                      IF \E i \in 1..Len(arguments) : arguments[i] \in {"-h", "--help"}
                      THEN 0 ELSE 2
           ELSE raised = "ConfigError" /\ exit_status = 1

\* C5's case: list-archives on an unconfigured repository, asked with -i.
C5_Witness ==
    /\ UnknownRepository
    /\ command = "list-archives"
    /\ "i" \in options
    /\ raised = "ConfigError"
    /\ exit_status = 1

\* The number of lines of a captured stdout: one per "\n" and one more for
\* text after the last "\n".
LineCount(out) ==
    Len(SelectSeq(out, LAMBDA c : c = "\n"))
        + (IF out # << >> /\ out[Len(out)] # "\n" THEN 1 ELSE 0)

\* The largest number of a non-empty finite set of numbers.
Maximum(S) == CHOOSE m \in S : \A x \in S : x <= m

\* C6: after a successful enumeration list-archives dispatches
\* "list ::<line>" plus the extra arguments once for every line of the
\* enumeration, in order, whatever the earlier ones returned, and returns the
\* largest return code of those that ran (0 when none ran); with no line it
\* returns 0 after a single subprocess.
C6_ListArchivesFanOut ==
    (pc = "exit" /\ command = "list-archives" /\ EnumSucceeded) =>
        LET out == events[EnumRunIndex].out
            per_archive == Tail(Echoes)
        IN  /\ Len(per_archive) = LineCount(out)
            /\ Len(archives) = LineCount(out)
            /\ \A i \in 1..Len(per_archive) :
                  per_archive[i].args =
                     << "list", "::" \o archives[i] >> \o Tail(arguments)
            /\ raised = "none"
            /\ returned =
                  Maximum({0} \cup { Runs[i].rc : i \in 2..Len(Runs) })
            /\ LineCount(out) = 0 => (returned = 0 /\ Len(Runs) = 1)

\* C6's case: three per-archive dispatches, the first returned 2, the second
\* was declined at the prompt, the third returned 1; the result is 2.
C6_Witness ==
    /\ pc = "exit" /\ command = "list-archives" /\ EnumSucceeded
    /\ Len(Echoes) = 4
    /\ Len(Runs) = 3
    /\ Runs[2].rc = 2 /\ Runs[3].rc = 1
    /\ events[Len(events)].type = "run"
    /\ returned = 2

\* C7 as stated: a composite command whose enumeration was declined or
\* failed returns 1 and dispatches nothing more.
C7_EnumerationFailureReturnsOne ==
    (command \in Composite /\ (EnumDeclined \/ EnumFailed)) =>
        /\ pc = "exit"
        /\ returned = 1
        /\ Len(Echoes) = 1

\* C7 amended: a composite command whose enumeration was declined returns 1;
\* one whose enumeration ran and failed returns nothing: subprocess.run
\* raises CalledProcessError (check=True), nothing catches it and the process
\* ends with status 1.  Neither dispatches anything more.
C7_EnumerationFailureEndsRun ==
    (command \in Composite /\ (EnumDeclined \/ EnumFailed)) =>
        /\ pc = "exit"
        /\ Len(Echoes) = 1
        /\ exit_status = 1
        /\ IF EnumDeclined
           THEN returned = 1 /\ raised = "none"
           ELSE returned = None /\ raised = "CalledProcessError"

\* C7's case: the enumeration of list-removed-items was confirmed at the
\* prompt, ran and returned 2.
C7_Witness ==
    /\ command = "list-removed-items"
    /\ ask_before_execute
    /\ EnumFailed
    /\ events[EnumRunIndex].rc = 2
    /\ events[EnumRunIndex].args = << "list", "--last", "2", "--json" >>

\* A record with a change of type "removed" or "removed directory" among the
\* first n records of the diff.
RemovalIn(n) ==
    \E i \in 1..n : \E j \in 1..Len(lines[i].changes) :
        lines[i].changes[j] \in {"removed", "removed directory"}

\* The last execute_borg call was declined, or ran and failed.
LastAborted == events # << >> /\ events[Len(events)].type = "prompt"
LastFailed ==
    events # << >> /\ events[Len(events)].type = "run"
                   /\ events[Len(events)].rc # 0

\* list-removed-items got past its option parsing on a configured repository
\* and has ended.
RemovedItemsEnded ==
    /\ pc = "exit"
    /\ command = "list-removed-items"
    /\ parsed # << >>
    /\ repository_name \in DOMAIN repositories

\* C8 as stated: list-removed-items returns 1 when a step was aborted or
\* failed, 1 when --fail is set and a removal was found, and 0 otherwise.
C8_RemovedItemsReturns ==
    RemovedItemsEnded =>
        returned = IF LastAborted \/ LastFailed THEN 1
                   ELSE IF parsed[1].fail /\ Len(Echoes) = 2
                           /\ RemovalIn(Len(lines)) THEN 1
                   ELSE 0

\* C8 amended: list-removed-items returns 1 when a step was aborted, 1 when
\* --fail is set and a change of the diff has type "removed" or "removed
\* directory", and 0 otherwise (without --fail, and with fewer than two
\* archives, where no diff is dispatched); a step that ran and failed raises
\* CalledProcessError instead, which ends the process with status 1 and no
\* return value.  While the records are read exit_code is 1 exactly when
\* --fail is set and a record already read has a removal: it never goes back
\* to 0.
C8_RemovedItemsExitCode ==
    /\ RemovedItemsEnded =>
          IF LastFailed
          THEN returned = None /\ raised = "CalledProcessError" /\ exit_status = 1
          ELSE /\ raised = "none"
               /\ returned = IF LastAborted THEN 1
                             ELSE IF parsed[1].fail /\ Len(Echoes) = 2
                                     /\ RemovalIn(Len(lines)) THEN 1
                             ELSE 0
               /\ exit_status = returned
    /\ (RemovedItemsEnded /\ EnumSucceeded /\ Len(archives) < 2) =>
          returned = 0 /\ Len(Echoes) = 1
    /\ pc = "list_removed_items_records" =>
          exit_code = IF parsed[1].fail /\ RemovalIn(pos - 1) THEN 1 ELSE 0

\* C8's case: --fail is set, the first record of the diff has a removal, the
\* second has none, and the command returned 1.
C8_Witness ==
    /\ RemovedItemsEnded
    /\ parsed[1].fail
    /\ Len(lines) = 2
    /\ RemovalIn(1)
    /\ \A j \in 1..Len(lines[2].changes) : lines[2].changes[j] = "modified"
    /\ lines[2].changes # << >>
    /\ returned = 1

\* C9: with ask_before_execute every subprocess start directly follows a
\* prompt for the same command line; an answer that begins with n or N starts
\* no subprocess and makes execute_borg return None without an exception, and
\* a pass-through run then returns 1; without ask_before_execute there is no
\* prompt.
C9_PromptBeforeEveryRun ==
    /\ ask_before_execute =>
          \A i \in 1..Len(events) :
              events[i].type = "run" =>
                  /\ i > 1
                  /\ events[i - 1].type = "prompt"
                  /\ events[i - 1].cmd = events[i].cmd
                  /\ events[i - 1].args = events[i].args
    /\ (ask_before_execute /\ Prompts # << >> /\ answer # << >>
           /\ answer[1] \in {"n", "N"}) =>
          /\ events[Len(events)].type = "prompt"
          /\ last_process = None
          /\ raised = "none"
          /\ (pc = "exit" /\ command = "pass-through") => returned = 1
    /\ ~ask_before_execute => Prompts = << >>
    /\ Len(Prompts) <= Len(Echoes)

\* C9's case: list-archives under -i; the enumeration and one per-archive
\* dispatch were confirmed and ran, the last per-archive dispatch was
\* declined with "No".
C9_Witness ==
    /\ ask_before_execute
    /\ command = "list-archives"
    /\ Len(Prompts) = 3
    /\ Len(Runs) = 2
    /\ answer = << "N", "o" >>
    /\ events[Len(events)].type = "prompt"

\* The number of non-empty lines of a captured stdout.
NonEmptyLineCount(out) ==
    Cardinality({ i \in 1..Len(out) :
                    out[i] # "\n" /\ (i = 1 \/ out[i - 1] = "\n") })

\* C10: list-archives dispatches once per non-empty line of the enumeration
\* and never for an empty line (never with the archive argument "::").
C10_NoDispatchForEmptyLine ==
    (pc = "exit" /\ command = "list-archives" /\ EnumSucceeded) =>
        /\ Len(Tail(Echoes)) = NonEmptyLineCount(events[EnumRunIndex].out)
        /\ \A i \in 2..Len(Echoes) : Echoes[i].args[2] # "::"

====
